---- MODULE Spec2Model ----
(***************************************************************************)
(* Model of analyzer.py: the retrying completion call (process_code), the  *)
(* chunking / memory-window loop over one file (analyze_code) and the      *)
(* directory walk that drives it (analyze_directory).                      *)
(*                                                                         *)
(* Text is a sequence of tokens.  A token is one character ("a", " ",      *)
(* "\n", a digit) or one of the three fixed phrases the code searches for, *)
(* kept whole: MARKER, RETRY_AFTER and TIMED_OUT.                          *)
(***************************************************************************)
EXTENDS Integers, Sequences, FiniteSets, TLC

(***************************************************************************)
(* Bounds of the model.                                                    *)
(***************************************************************************)
MaxCalls == 7        \* create_analysis calls explored in one process_code call
MaxFiles == 2        \* matching files in the walked directory
MaxChars == 4        \* characters in all files of the directory together
MaxChunkSize == 2    \* largest chunk budget explored

(***************************************************************************)
(* Program constants.                                                      *)
(***************************************************************************)
MAX_RETRIES == 5
TIMEOUT_DELAY == 5
max_analysis_blocks == 3

(***************************************************************************)
(* Tokens and text primitives.                                             *)
(***************************************************************************)
NL == "\n"
SP == " "
MARKER == "exceeded token rate limit"
RETRY_AFTER == "Please retry after"
TIMED_OUT == "Request timed out"
Digits == <<"0", "1", "2", "3", "4", "5", "6", "7", "8", "9">>

IsDigit(c) == \E k \in 1..10 : Digits[k] = c
DigitVal(c) == (CHOOSE k \in 1..10 : Digits[k] = c) - 1
IsSpace(c) == c \in {SP, NL}

\* `phrase in str(x)`
Contains(text, phrase) == \E i \in 1..Len(text) : text[i] = phrase

\* int(...) of a run of digit tokens
RECURSIVE ToInt(_)
ToInt(ds) ==
    IF ds = <<>> THEN 0
    ELSE 10 * ToInt(SubSeq(ds, 1, Len(ds) - 1)) + DigitVal(ds[Len(ds)])

\* the positions where r'Please retry after (\d+)' matches
MatchStarts(text) ==
    {i \in 1..Len(text) :
        /\ i + 2 <= Len(text)
        /\ text[i] = RETRY_AFTER
        /\ text[i + 1] = SP
        /\ IsDigit(text[i + 2])}

\* re.search(...) finds a match
HasDelay(text) == MatchStarts(text) # {}

\* the last position of the greedy digit run (\d+) that starts at position i
RECURSIVE DigitRunEnd(_, _)
DigitRunEnd(text, i) ==
    IF i + 1 <= Len(text) /\ IsDigit(text[i + 1]) THEN DigitRunEnd(text, i + 1) ELSE i

FirstDigitOnly(text) ==
    LET i == CHOOSE j \in MatchStarts(text) : \A k \in MatchStarts(text) : j <= k
    IN  ToInt(SubSeq(text, i + 2, i + 2))

\* int(delay_str.group(1)) of the leftmost match
ParseDelay(text) ==
    LET i == CHOOSE j \in MatchStarts(text) : \A k \in MatchStarts(text) : j <= k
    IN  ToInt(SubSeq(text, i + 2, DigitRunEnd(text, i + 2)))

(***************************************************************************)
(* process_code: one activation is a record                                *)
(*   pc          "loop" (at the while test), "sleeping" (awaiting          *)
(*               asyncio.sleep), "returned", "raised"                      *)
(*   retry_count the local counter                                         *)
(*   e           the message bound by `except AIException as e`, or        *)
(*               Unbound; Python unbinds it when the except clause ends    *)
(*   delay       the duration of the sleep in progress                     *)
(*   result      the returned text                                         *)
(*   error       the failure that left the call                            *)
(*   attempts    the outcome of each create_analysis call so far           *)
(*   sleeps      the durations of the sleeps completed so far              *)
(***************************************************************************)
Unbound == <<"<unbound>">>
NoneText == <<"None">>

UnknownError == "Unknown error message when processing text."
TimeoutExhausted == "Timeout error. All retries failed."
RateLimitExhausted == "Rate limit error. All retries failed."
UnboundLocalError == "UnboundLocalError"
AIException == "AIException"

NewInvocation ==
    [pc |-> "loop", retry_count |-> 0, e |-> Unbound, delay |-> 0,
     result |-> <<>>, error |-> "", attempts |-> <<>>, sleeps |-> <<>>]

\* what create_analysis can do: return text, or raise an AIException with a message
Returned(text) == [kind |-> "return", msg |-> text]
Raised(text) == [kind |-> "AIException", msg |-> text]

LoopGuardOffByOne(retry_count) == retry_count < MAX_RETRIES - 1

\* while retry_count < MAX_RETRIES
LoopGuard(retry_count) == retry_count < MAX_RETRIES

BranchRetriesAnyException(o) ==
    IF o.kind = "return"
    THEN IF Contains(o.msg, MARKER)
         THEN IF HasDelay(o.msg) THEN "rate_limit_text" ELSE "malformed_text"
         ELSE "success"
    ELSE IF Contains(o.msg, MARKER)
         THEN IF HasDelay(o.msg) THEN "rate_limit_exception" ELSE "no_delay_exception"
         ELSE "timeout"

BranchIgnoresMarkerInText(o) ==
    IF o.kind = "return"
    THEN "success"
    ELSE IF Contains(o.msg, TIMED_OUT) THEN "timeout"
         ELSE IF Contains(o.msg, MARKER)
              THEN IF HasDelay(o.msg) THEN "rate_limit_exception" ELSE "no_delay_exception"
              ELSE "reraise"

\* which branch of the try / except one outcome of create_analysis takes
BranchMalformedRetried(o) ==
    IF o.kind = "return"
    THEN IF Contains(o.msg, MARKER) THEN "rate_limit_text" ELSE "success"
    ELSE IF Contains(o.msg, TIMED_OUT) THEN "timeout"
         ELSE IF Contains(o.msg, MARKER)
              THEN IF HasDelay(o.msg) THEN "rate_limit_exception" ELSE "no_delay_exception"
              ELSE "reraise"

Branch(o) ==
    IF o.kind = "return"
    THEN IF Contains(o.msg, MARKER)
         THEN IF HasDelay(o.msg) THEN "rate_limit_text" ELSE "malformed_text"
         ELSE "success"
    ELSE IF Contains(o.msg, TIMED_OUT) THEN "timeout"
         ELSE IF Contains(o.msg, MARKER)
              THEN IF HasDelay(o.msg) THEN "rate_limit_exception" ELSE "no_delay_exception"
              ELSE "reraise"

\* the delay handed to asyncio.sleep in the three branches that sleep
SleepDelay(o) ==
    IF Branch(o) = "timeout" THEN TIMEOUT_DELAY
    ELSE IF HasDelay(o.msg) THEN ParseDelay(o.msg) ELSE 0

\* one pass through the try statement, up to the return, the raise, the
\* await of asyncio.sleep, or (no_delay_exception) the end of the except clause
Attempt(inv, o) ==
    LET called == [inv EXCEPT !.attempts = Append(@, o)]
        b == Branch(o)
    IN  CASE b = "success" ->
               [called EXCEPT !.pc = "returned", !.result = o.msg]
          [] b = "rate_limit_text" ->
               [called EXCEPT !.pc = "sleeping", !.delay = SleepDelay(o)]
          [] b = "malformed_text" ->
               [called EXCEPT !.pc = "raised", !.error = UnknownError]
          [] b = "timeout" ->
               [called EXCEPT !.pc = "sleeping", !.e = o.msg, !.delay = SleepDelay(o)]
          [] b = "rate_limit_exception" ->
               [called EXCEPT !.pc = "sleeping", !.e = o.msg, !.delay = SleepDelay(o)]
          [] b = "no_delay_exception" ->
               [called EXCEPT !.pc = "loop", !.e = Unbound]
          [] OTHER ->
               [called EXCEPT !.pc = "raised", !.e = o.msg, !.error = AIException]

\* asyncio.sleep(delay) is over: retry_count += 1, the except clause (if the
\* sleep was in one) ends and unbinds e, back to the while test
SleepDone(inv) ==
    [inv EXCEPT !.pc = "loop", !.sleeps = Append(@, inv.delay),
                !.retry_count = @ + 1, !.e = Unbound]

\* the while test failed: the statements after the loop
Exhaust(inv) ==
    IF inv.retry_count = MAX_RETRIES
    THEN IF inv.e = Unbound
         THEN [inv EXCEPT !.pc = "raised", !.error = UnboundLocalError]
         ELSE IF Contains(inv.e, TIMED_OUT)
              THEN [inv EXCEPT !.pc = "raised", !.error = TimeoutExhausted]
              ELSE [inv EXCEPT !.pc = "raised", !.error = RateLimitExhausted]
    ELSE [inv EXCEPT !.pc = "returned", !.result = NoneText]

\* process_code run against the backend outcomes `outs`, in order: the
\* activation when it has left the call, or where it stands when `outs` runs out
RECURSIVE process_code(_, _)
process_code(inv, outs) ==
    IF inv.pc \in {"returned", "raised"} THEN inv
    ELSE IF inv.pc = "sleeping" THEN process_code(SleepDone(inv), outs)
    ELSE IF ~LoopGuard(inv.retry_count) THEN Exhaust(inv)
    ELSE IF outs = <<>> THEN inv
    ELSE process_code(Attempt(inv, Head(outs)), Tail(outs))

(***************************************************************************)
(* analyze_code: slicing, splitting and the memory window.                 *)
(***************************************************************************)
Min(a, b) == IF a <= b THEN a ELSE b

SliceSkipsOne(text, start, size) ==
    SubSeq(text, Min(start + 2, Len(text) + 1), Min(start + size, Len(text)))

\* input_text[start:start+size]
Slice(text, start, size) ==
    SubSeq(text, Min(start + 1, Len(text) + 1), Min(start + size, Len(text)))

\* the positions where the separator "\n\n" starts
BlankLines(text) == {i \in 1..Len(text) - 1 : text[i] = NL /\ text[i + 1] = NL}

\* str.split('\n\n')
RECURSIVE SplitBlankLines(_)
SplitBlankLines(text) ==
    IF BlankLines(text) = {} THEN <<text>>
    ELSE LET i == CHOOSE j \in BlankLines(text) : \A k \in BlankLines(text) : j <= k
         IN  <<SubSeq(text, 1, i - 1)>> \o SplitBlankLines(SubSeq(text, i + 2, Len(text)))

\* str.strip()
RECURSIVE Strip(_)
Strip(text) ==
    IF text = <<>> THEN text
    ELSE IF IsSpace(Head(text)) THEN Strip(Tail(text))
    ELSE IF IsSpace(text[Len(text)]) THEN Strip(SubSeq(text, 1, Len(text) - 1))
    ELSE text

extract_analysis_blocks(summary_text) ==
    LET paragraphs == SplitBlankLines(summary_text)
    IN  [i \in 1..Len(paragraphs) |-> Strip(paragraphs[i])]

RetainedAll(analysis_blocks) == analysis_blocks

\* what `while len(analysis_blocks) > max_analysis_blocks: ... pop(0)` leaves
RECURSIVE Retained(_)
Retained(analysis_blocks) ==
    IF Len(analysis_blocks) > max_analysis_blocks
    THEN Retained(Tail(analysis_blocks))
    ELSE analysis_blocks

EvictedNothing(analysis_blocks) == <<>>

\* the blocks that loop pops, in the order it pops them
RECURSIVE Evicted(_)
Evicted(analysis_blocks) ==
    IF Len(analysis_blocks) > max_analysis_blocks
    THEN <<Head(analysis_blocks)>> \o Evicted(Tail(analysis_blocks))
    ELSE <<>>

\* out_f.write(block + "\n\n") for each block, in order
RECURSIVE WriteBlocks(_)
WriteBlocks(blocks) ==
    IF blocks = <<>> THEN <<>>
    ELSE Head(blocks) \o <<NL, NL>> \o WriteBlocks(Tail(blocks))

RECURSIVE FlushedNewestFirst(_)
FlushedNewestFirst(blocks) ==
    IF blocks = <<>> THEN <<>>
    ELSE FlushedNewestFirst(Tail(blocks)) \o <<Head(blocks)>>

\* the blocks `while previous_analysis_blocks: ... pop(0)` writes, in order
RECURSIVE Flushed(_)
Flushed(blocks) ==
    IF blocks = <<>> THEN <<>>
    ELSE <<Head(blocks)>> \o Flushed(Tail(blocks))

RecreatedKeepsContent(content) == content

\* os.remove(output_path) if it exists, then open(output_path, "a")
Recreated(content) == <<>>

EndOfTextAfterProgress(chunk, processed) == chunk = <<>> /\ processed > 0

\* if not chunk: break
EndOfText(chunk, processed) == chunk = <<>>

AdvanceByOne(processed, chunk) == processed + 1

\* processed_chars += len(chunk)
Advance(processed, chunk) == processed + Len(chunk)

\* (processed_chars / total_chars) * 100, whole percents
Progress(processed, total) == (processed * 100) \div total

\* "\n\n".join(blocks)
RECURSIVE JoinBlankLines(_)
JoinBlankLines(blocks) ==
    IF blocks = <<>> THEN <<>>
    ELSE IF Len(blocks) = 1 THEN Head(blocks)
    ELSE Head(blocks) \o <<NL, NL>> \o JoinBlankLines(Tail(blocks))

BuildRequestWithoutMemory(input_path, blocks, chunk) ==
    <<"file name: ", input_path, NL, NL, "[PREVIOUS_ANALYSIS]", NL, NL>>
        \o <<NL, NL, "[CURRENT_CHUNK]", NL, NL>> \o chunk

\* input_text_chunk
BuildRequest(input_path, blocks, chunk) ==
    <<"file name: ", input_path, NL, NL, "[PREVIOUS_ANALYSIS]", NL, NL>>
        \o JoinBlankLines(blocks)
        \o <<NL, NL, "[CURRENT_CHUNK]", NL, NL>> \o chunk

(***************************************************************************)
(* State.                                                                  *)
(*   files        the texts of the matching files, in walk order           *)
(*   chunk_size   the chunk budget                                         *)
(*   output       the content of the file at output_file_path              *)
(*   pc           "walk" (analyze_directory's loop), "slice" (top of       *)
(*                analyze_code's loop), "await" (awaiting process_code),   *)
(*                "done", "failed", or "invoker" (process_code on its own) *)
(*   processed_files, processed_chars, previous_analysis_blocks            *)
(*                the locals of those names                                *)
(*   request      the input_text_chunk last built                          *)
(*   error        the failure that ended the run                           *)
(*   invocation   the process_code activation                              *)
(*   chunks       the chunks sliced from the current file, with offsets    *)
(*   folded       the blocks of every non-empty response for the current   *)
(*                file, as extracted                                       *)
(*   written      everything written to the output path during the walk    *)
(*   emitted      the blocks written for the current file, in order        *)
(*   progress     the local of that name: the percentage last computed     *)
(*                for the current file, or NotComputed                     *)
(***************************************************************************)
VARIABLES files, chunk_size, output, pc, processed_files, processed_chars,
          previous_analysis_blocks, request, error, invocation,
          chunks, folded, written, emitted, progress

analyzer_vars == <<files, chunk_size, output, pc, processed_files, processed_chars,
                   previous_analysis_blocks, request, error, chunks, folded, written,
                   emitted, progress>>
vars == <<files, chunk_size, output, pc, processed_files, processed_chars,
          previous_analysis_blocks, request, error, invocation,
          chunks, folded, written, emitted, progress>>

(***************************************************************************)
(* Inputs.                                                                 *)
(***************************************************************************)
Letters == <<"x", "y", "z">>
InputText(n) == [i \in 1..n |-> Letters[((i - 1) % 3) + 1]]
Paths == <<"1.py", "2.py", "3.py", "4.py">>

RECURSIVE Sum(_)
Sum(lengths) == IF lengths = <<>> THEN 0 ELSE Head(lengths) + Sum(Tail(lengths))

Directories ==
    {[i \in 1..Len(lengths) |-> InputText(lengths[i])] :
        lengths \in {l \in UNION {[1..k -> 0..MaxChars] : k \in 0..MaxFiles} :
                        Sum(l) <= MaxChars}}

\* `progress` before line 207 has run
NotComputed == -1

\* an output file left by an earlier run
Stale == <<"o", "l", "d", NL, NL>>

Decimal(n) == IF n < 10 THEN <<Digits[n + 1]>>
              ELSE <<Digits[(n \div 10) + 1], Digits[(n % 10) + 1]>>
RateLimitMessage(n) ==
    <<"Requests", SP, MARKER, ".", SP, RETRY_AFTER, SP>> \o Decimal(n) \o <<SP, "seconds">>
TimeoutMessage == <<TIMED_OUT>>
NoDelayMessage == <<"Requests", SP, MARKER, ".">>
QuotingMessage == <<"the", SP, "code", SP, "logs", SP, MARKER>>
OtherMessage == <<"Invalid", SP, "request">>

EmptyText == <<>>
OneBlock == <<SP, "a", NL>>
TwoBlocks == <<"a", SP, "b", NL, NL, SP, "c", NL>>
FourBlocks == <<"a", NL, NL, "b", NL, NL, NL, "c", NL, NL, "d">>
FiveBlocks == <<"a", NL, NL, NL, NL, "b", NL, NL, "c", NL, NL, "d">>

\* the outcomes of one create_analysis call explored for process_code on its own
BackendOutcomes ==
    {Returned(OneBlock), Returned(RateLimitMessage(7)), Returned(RateLimitMessage(12)),
     Returned(NoDelayMessage), Returned(QuotingMessage),
     Raised(TimeoutMessage), Raised(RateLimitMessage(7)), Raised(NoDelayMessage),
     Raised(OtherMessage)}

\* the outcome sequences of one process_code call explored for the walk
BackendRuns ==
    {<<Returned(t)>> : t \in {EmptyText, TwoBlocks, FourBlocks, FiveBlocks}}
    \cup {<<Raised(TimeoutMessage), Returned(OneBlock)>>,
          <<Returned(RateLimitMessage(7)), Raised(NoDelayMessage), Returned(EmptyText)>>,
          <<Returned(NoDelayMessage)>>,
          <<Returned(QuotingMessage)>>,
          <<Raised(OtherMessage)>>,
          [i \in 1..MAX_RETRIES |-> Raised(TimeoutMessage)]}

(***************************************************************************)
(* Initial states.                                                         *)
(***************************************************************************)
Init ==
    /\ files \in Directories
    /\ chunk_size \in 1..MaxChunkSize
    /\ output \in {<<>>, Stale}
    /\ pc = "walk"
    /\ processed_files = 0
    /\ processed_chars = 0
    /\ previous_analysis_blocks = <<>>
    /\ request = <<>>
    /\ error = ""
    /\ invocation = NewInvocation
    /\ chunks = <<>>
    /\ folded = <<>>
    /\ written = <<>>
    /\ emitted = <<>>
    /\ progress = NotComputed

InitInvoker ==
    /\ files = <<>>
    /\ chunk_size = 1
    /\ output = <<>>
    /\ pc = "invoker"
    /\ processed_files = 0
    /\ processed_chars = 0
    /\ previous_analysis_blocks = <<>>
    /\ request = <<>>
    /\ error = ""
    /\ invocation = NewInvocation
    /\ chunks = <<>>
    /\ folded = <<>>
    /\ written = <<>>
    /\ emitted = <<>>
    /\ progress = NotComputed

(***************************************************************************)
(* process_code, step by step.                                             *)
(***************************************************************************)
CanCall ==
    /\ invocation.pc = "loop"
    /\ LoopGuard(invocation.retry_count)
    /\ Len(invocation.attempts) < MaxCalls

\* one create_analysis call with outcome o, and what the try statement does with it
Call(o) ==
    /\ CanCall
    /\ invocation' = Attempt(invocation, o)
    /\ UNCHANGED analyzer_vars

ReturnSummary == \E o \in BackendOutcomes : Branch(o) = "success" /\ Call(o)
RateLimitText == \E o \in BackendOutcomes : Branch(o) = "rate_limit_text" /\ Call(o)
MalformedText == \E o \in BackendOutcomes : Branch(o) = "malformed_text" /\ Call(o)
Timeout == \E o \in BackendOutcomes : Branch(o) = "timeout" /\ Call(o)
RateLimitException == \E o \in BackendOutcomes : Branch(o) = "rate_limit_exception" /\ Call(o)
NoDelayException == \E o \in BackendOutcomes : Branch(o) = "no_delay_exception" /\ Call(o)
Reraise == \E o \in BackendOutcomes : Branch(o) = "reraise" /\ Call(o)

SleepOver ==
    /\ invocation.pc = "sleeping"
    /\ invocation' = SleepDone(invocation)
    /\ UNCHANGED analyzer_vars

RetriesExhausted ==
    /\ invocation.pc = "loop"
    /\ ~LoopGuard(invocation.retry_count)
    /\ invocation' = Exhaust(invocation)
    /\ UNCHANGED analyzer_vars

NextInvoker ==
    \/ ReturnSummary
    \/ RateLimitText
    \/ MalformedText
    \/ Timeout
    \/ RateLimitException
    \/ NoDelayException
    \/ Reraise
    \/ SleepOver
    \/ RetriesExhausted

SpecInvoker == InitInvoker /\ [][NextInvoker]_vars

(***************************************************************************)
(* analyze_directory and analyze_code.                                     *)
(***************************************************************************)
input_path == Paths[processed_files + 1]
input_text == files[processed_files + 1]
total_chars == Len(input_text)

\* the for loop finds the next file: analyze_code up to its while loop
StartFile ==
    /\ pc = "walk"
    /\ processed_files < Len(files)
    /\ previous_analysis_blocks' = <<>>
    /\ output' = Recreated(output)
    /\ processed_chars' = 0
    /\ chunks' = <<>>
    /\ folded' = <<>>
    /\ emitted' = <<>>
    /\ progress' = NotComputed
    /\ pc' = "slice"
    /\ UNCHANGED <<files, chunk_size, processed_files, request, error, invocation, written>>

\* the for loop is over
WalkDone ==
    /\ pc = "walk"
    /\ processed_files = Len(files)
    /\ pc' = "done"
    /\ UNCHANGED <<files, chunk_size, output, processed_files, processed_chars,
                   previous_analysis_blocks, request, error, invocation,
                   chunks, folded, written, emitted, progress>>

\* a non-empty chunk: build the request and call process_code
SendChunk ==
    LET chunk == Slice(input_text, processed_chars, chunk_size)
    IN  /\ pc = "slice"
        /\ ~EndOfText(chunk, processed_chars)
        /\ processed_chars' = Advance(processed_chars, chunk)
        /\ request' = BuildRequest(input_path, previous_analysis_blocks, chunk)
        /\ chunks' = Append(chunks, [offset |-> processed_chars, text |-> chunk])
        /\ pc' = "await"
        /\ UNCHANGED <<files, chunk_size, output, processed_files,
                       previous_analysis_blocks, error, invocation, folded, written,
                       emitted, progress>>

\* an empty chunk: break, write what the window holds, return to the walk
EndOfInput ==
    LET chunk == Slice(input_text, processed_chars, chunk_size)
    IN  /\ pc = "slice"
        /\ EndOfText(chunk, processed_chars)
        /\ processed_chars' = Advance(processed_chars, chunk)
        /\ output' = output \o WriteBlocks(Flushed(previous_analysis_blocks))
        /\ written' = written \o WriteBlocks(Flushed(previous_analysis_blocks))
        /\ emitted' = emitted \o Flushed(previous_analysis_blocks)
        /\ previous_analysis_blocks' = <<>>
        /\ processed_files' = processed_files + 1
        /\ pc' = "walk"
        /\ UNCHANGED <<files, chunk_size, request, error, invocation, chunks, folded,
                       progress>>

\* line 207: the progress, or ZeroDivisionError when total_chars is 0
ReportProgress ==
    IF total_chars = 0
    THEN /\ pc' = "failed"
         /\ error' = "ZeroDivisionError"
         /\ progress' = progress
    ELSE /\ pc' = "slice"
         /\ error' = error
         /\ progress' = Progress(processed_chars, total_chars)

\* process_code returns non-empty text
FoldIn ==
    \E run \in BackendRuns :
        LET inv == process_code(NewInvocation, run)
            analysis_blocks == extract_analysis_blocks(inv.result)
        IN  /\ pc = "await"
            /\ inv.pc = "returned"
            /\ inv.result # <<>>
            /\ invocation' = inv
            /\ output' = output \o WriteBlocks(Evicted(analysis_blocks))
            /\ written' = written \o WriteBlocks(Evicted(analysis_blocks))
            /\ emitted' = emitted \o Evicted(analysis_blocks)
            /\ previous_analysis_blocks' = Retained(analysis_blocks)
            /\ folded' = folded \o analysis_blocks
            /\ ReportProgress
            /\ UNCHANGED <<files, chunk_size, processed_files, processed_chars,
                           request, chunks>>

NoAnalysisFoldsAnyway ==
    \E run \in BackendRuns :
        LET inv == process_code(NewInvocation, run)
        IN  /\ pc = "await"
            /\ inv.pc = "returned"
            /\ inv.result = <<>>
            /\ invocation' = inv
            /\ previous_analysis_blocks' = Retained(extract_analysis_blocks(inv.result))
            /\ ReportProgress
            /\ UNCHANGED <<files, chunk_size, output, processed_files, processed_chars,
                           request, chunks, folded, written, emitted>>

\* process_code returns empty text
NoAnalysis ==
    \E run \in BackendRuns :
        LET inv == process_code(NewInvocation, run)
        IN  /\ pc = "await"
            /\ inv.pc = "returned"
            /\ inv.result = <<>>
            /\ invocation' = inv
            /\ ReportProgress
            /\ UNCHANGED <<files, chunk_size, output, processed_files, processed_chars,
                           previous_analysis_blocks, request,
                           chunks, folded, written, emitted>>

AbortSkipsFile ==
    \E run \in BackendRuns :
        LET inv == process_code(NewInvocation, run)
        IN  /\ pc = "await"
            /\ inv.pc = "raised"
            /\ invocation' = inv
            /\ processed_files' = processed_files + 1
            /\ pc' = "walk"
            /\ UNCHANGED <<files, chunk_size, output, processed_chars, error,
                           previous_analysis_blocks, request, chunks, folded, written,
                           emitted, progress>>

\* process_code raises: nothing catches it up to asyncio.run
Abort ==
    \E run \in BackendRuns :
        LET inv == process_code(NewInvocation, run)
        IN  /\ pc = "await"
            /\ inv.pc = "raised"
            /\ invocation' = inv
            /\ error' = inv.error
            /\ pc' = "failed"
            /\ UNCHANGED <<files, chunk_size, output, processed_files, processed_chars,
                           previous_analysis_blocks, request, chunks, folded, written,
                           emitted, progress>>

Next ==
    \/ StartFile
    \/ WalkDone
    \/ SendChunk
    \/ EndOfInput
    \/ FoldIn
    \/ NoAnalysis
    \/ Abort

Spec == Init /\ [][Next]_vars

(***************************************************************************)
(* Properties of process_code (checked under SpecInvoker).                 *)
(***************************************************************************)
Last(seq) == seq[Len(seq)]

IsTimeout(o) == o.kind = "AIException" /\ Contains(o.msg, TIMED_OUT)
IsRateLimit(o) == Contains(o.msg, MARKER) /\ ~IsTimeout(o)
CountedFailure(o) == IsTimeout(o) \/ (IsRateLimit(o) /\ HasDelay(o.msg))
CleanText(o) == o.kind = "return" /\ ~Contains(o.msg, MARKER)

\* C2: one process_code call makes at most MAX_RETRIES (5) calls to the
\* completion client, whatever the backend does.
C2_AtMostMaxRetriesCalls == Len(invocation.attempts) <= 5

\* C5: when the retries are exhausted the call fails with the exhaustion error
\* tagged with the class of the last failure: the timeout error after a
\* timeout, the rate-limit error after a rate limit.
C5_ExhaustionTaggedByLastFailure ==
    (invocation.pc = "raised" /\ invocation.retry_count = 5) =>
        invocation.error = IF IsTimeout(Last(invocation.attempts))
                           THEN TimeoutExhausted
                           ELSE RateLimitExhausted

\* C6: if the first k-1 attempts (k <= 5) each fail with a timeout or with a
\* rate limit that carries a delay, process_code goes on to attempt k, and if
\* attempt k returns text without the marker it returns exactly that text,
\* after k calls and k-1 sleeps, with no error.
C6_SucceedsOnAttemptK ==
    LET a == invocation.attempts
        k == Len(a)
    IN  (k >= 1 /\ \A i \in 1..(k - 1) : CountedFailure(a[i])) =>
            /\ CleanText(a[k]) =>
                  /\ invocation.pc = "returned"
                  /\ invocation.result = a[k].msg
                  /\ invocation.error = ""
                  /\ k <= 5
                  /\ Len(invocation.sleeps) = k - 1
            /\ (CountedFailure(a[k]) /\ k < 5) => invocation.pc \in {"sleeping", "loop"}

C6_FifthAttemptSucceeds ==
    /\ invocation.pc = "returned"
    /\ Len(invocation.attempts) = 5
    /\ \A i \in 1..4 : invocation.attempts[i] = Raised(TimeoutMessage)
    /\ invocation.attempts[5] = Returned(OneBlock)
    /\ invocation.result = OneBlock

\* C7: rate-limit text with "Please retry after N" starts a sleep of exactly
\* N, a timeout a sleep of exactly TIMEOUT_DELAY (5); while the sleep lasts
\* nothing else happens, and when it ends the retry counter has grown by
\* exactly 1 and no backend call has been made in between.
C7_SleepThenCount ==
    [][/\ (invocation.pc = "loop" /\ invocation'.pc = "sleeping") =>
            /\ \A n \in {7, 12} :
                  Last(invocation'.attempts) = Returned(RateLimitMessage(n))
                      => invocation'.delay = n
            /\ Last(invocation'.attempts) = Raised(TimeoutMessage)
                  => invocation'.delay = 5
            /\ invocation'.retry_count = invocation.retry_count
            /\ invocation'.sleeps = invocation.sleeps
       /\ invocation.pc = "sleeping" =>
            /\ invocation'.pc = "loop"
            /\ invocation'.attempts = invocation.attempts
            /\ invocation'.sleeps = Append(invocation.sleeps, invocation.delay)
            /\ invocation'.retry_count = invocation.retry_count + 1]_vars

C7_SleptTwelveThenCalledAgain ==
    /\ Len(invocation.attempts) = 2
    /\ invocation.attempts[1] = Returned(RateLimitMessage(12))
    /\ invocation.sleeps = <<12>>
    /\ invocation.retry_count = 1

\* C8: an AIException whose message has the rate-limit marker but no
\* parseable delay makes process_code fail at once.
C8_NoDelayExceptionIsFatal ==
    LET a == invocation.attempts
    IN  (a # <<>> /\ Last(a).kind = "AIException" /\ IsRateLimit(Last(a))
            /\ ~HasDelay(Last(a).msg))
        => invocation.pc = "raised"

\* C9: returned text with the rate-limit marker but no parseable delay makes
\* that attempt fail: the call raises, without a sleep and without counting a
\* retry, and nothing happens after it.
C9_MalformedTextIsFatal ==
    [][/\ (/\ invocation.pc = "loop"
            /\ Len(invocation'.attempts) = Len(invocation.attempts) + 1
            /\ Last(invocation'.attempts).kind = "return"
            /\ Contains(Last(invocation'.attempts).msg, MARKER)
            /\ ~HasDelay(Last(invocation'.attempts).msg)) =>
                /\ invocation'.pc = "raised"
                /\ invocation'.error = UnknownError
                /\ invocation'.retry_count = invocation.retry_count
                /\ invocation'.sleeps = invocation.sleeps
       /\ invocation.pc = "raised" => invocation' = invocation]_vars

C9_MalformedTextOnSecondAttempt ==
    /\ invocation.pc = "raised"
    /\ invocation.error = UnknownError
    /\ Len(invocation.attempts) = 2
    /\ invocation.attempts[2] = Returned(NoDelayMessage)
    /\ invocation.retry_count = 1

(***************************************************************************)
(* Properties of analyze_code and analyze_directory (checked under Spec).  *)
(***************************************************************************)
RECURSIVE Concat(_)
Concat(texts) == IF texts = <<>> THEN <<>> ELSE Head(texts) \o Concat(Tail(texts))

ChunkTexts == [i \in 1..Len(chunks) |-> chunks[i].text]

\* analyze_code has just returned for file number processed_files
FileCompleted == pc = "walk" /\ processed_files >= 1

IsSuffix(s, t) == Len(s) <= Len(t) /\ SubSeq(t, Len(t) - Len(s) + 1, Len(t)) = s

\* C1: when the analysis of a file completes, every block of every response
\* folded in for it has been written to the output exactly once, in order.
C1_EveryBlockWrittenOnce == FileCompleted => output = WriteBlocks(folded)

\* C3: the chunks have contiguous, strictly increasing offsets starting at 0,
\* each is non-empty and at most the budget long, each but the last exactly
\* the budget long; together they are the text read so far, and when the loop
\* has ended they are the whole input and the offset is its length.
C3_ChunksPartitionInput ==
    LET n == Len(chunks)
    IN  /\ \A i \in 1..n :
              /\ chunks[i].text # <<>>
              /\ Len(chunks[i].text) <= chunk_size
        /\ n >= 1 => chunks[1].offset = 0
        /\ \A i \in 1..(n - 1) :
              /\ Len(chunks[i].text) = chunk_size
              /\ chunks[i + 1].offset = chunks[i].offset + Len(chunks[i].text)
              /\ chunks[i + 1].offset > chunks[i].offset
        /\ pc \in {"slice", "await"} =>
              Concat(ChunkTexts) = SubSeq(input_text, 1, processed_chars)
        /\ FileCompleted =>
              /\ Concat(ChunkTexts) = files[processed_files]
              /\ processed_chars = Len(files[processed_files])

C3_LastChunkShorter ==
    /\ FileCompleted
    /\ Len(chunks) = 2
    /\ Len(chunks[2].text) < chunk_size

\* C4: the memory window never holds more than max_analysis_blocks (3) blocks.
C4_WindowWithinCap == Len(previous_analysis_blocks) <= 3

C4_WindowFullAfterLongResponse ==
    /\ pc = "slice"
    /\ invocation.result = FiveBlocks
    /\ Len(previous_analysis_blocks) = 3
    /\ folded # <<>>

\* C10: when the walk is over the output holds everything written for every
\* file of the walk, in walk order.
C10_OutputKeepsEveryFile == pc = "done" => IsSuffix(written, output)

\* C11: each file's analysis starts by recreating the output empty, before
\* the first backend call for the file; when the file's analysis completes the
\* output is exactly the blocks written for that file.
C11_OutputRecreatedPerFile ==
    /\ (pc = "slice" /\ chunks = <<>>) => output = <<>>
    /\ (pc = "await" /\ Len(chunks) = 1) => output = <<>>
    /\ FileCompleted =>
          output = Concat([i \in 1..Len(emitted) |-> emitted[i] \o <<NL, NL>>])

C11_SecondFileReplacedFirst ==
    /\ FileCompleted
    /\ processed_files = 2
    /\ emitted # <<>>
    /\ Len(written) > Len(output)

\* C12: for an input file of length 0 no chunk is processed: no request is
\* built, process_code is not called, nothing is written, no progress is
\* computed, and the analysis ends normally.
C12_EmptyFileIsNoOp ==
    /\ (pc \in {"slice", "await", "failed"} /\ input_text = <<>>) =>
          /\ pc = "slice"
          /\ ENABLED EndOfInput
          /\ chunks = <<>>
          /\ output = <<>>
          /\ progress = NotComputed
    /\ (FileCompleted /\ files[processed_files] = <<>>) =>
          /\ chunks = <<>>
          /\ folded = <<>>
          /\ emitted = <<>>
          /\ output = <<>>
          /\ progress = NotComputed

C12_EmptyFileAnalysed ==
    /\ FileCompleted
    /\ files[processed_files] = <<>>
    /\ processed_files = 2
    /\ invocation.pc = "returned"

\* the sections of a request
IndexOf(seq, token) ==
    CHOOSE i \in 1..Len(seq) : seq[i] = token /\ \A j \in 1..(i - 1) : seq[j] # token
PreviousAnalysisOf(req) ==
    SubSeq(req, IndexOf(req, "[PREVIOUS_ANALYSIS]") + 3, IndexOf(req, "[CURRENT_CHUNK]") - 3)
CurrentChunkOf(req) == SubSeq(req, IndexOf(req, "[CURRENT_CHUNK]") + 3, Len(req))

\* blocks, each followed by a blank line
Terminated(blocks) == Concat([i \in 1..Len(blocks) |-> blocks[i] \o <<NL, NL>>])

\* C13: a completed analysis of a file of length L with budget B has called
\* process_code exactly ceil(L/B) times, once per chunk, in chunk order; with
\* 0 < L < B there is exactly one call, and the output is what the single
\* response yielded.
C13_OneCallPerChunk ==
    /\ pc = "await" =>
          /\ CurrentChunkOf(request) = Last(chunks).text
          /\ Last(chunks).offset = (Len(chunks) - 1) * chunk_size
    /\ FileCompleted =>
          LET L == Len(files[processed_files])
          IN  /\ Len(chunks) = (L + chunk_size - 1) \div chunk_size
              /\ (0 < L /\ L < chunk_size) =>
                    /\ Len(chunks) = 1
                    /\ invocation.pc = "returned"
                    /\ output = IF invocation.result = <<>> THEN <<>>
                                ELSE Terminated(extract_analysis_blocks(invocation.result))

C13_SmallFileOneCall ==
    /\ FileCompleted
    /\ Len(files[processed_files]) = 1
    /\ chunk_size = 2
    /\ Len(chunks) = 1
    /\ output = Terminated(<<<<"a", SP, "b">>, <<"c">>>>)

\* C14: folding in a response of n blocks writes its n - 3 oldest blocks at
\* once, in order, and leaves its last 3 blocks as the window when n > 3;
\* it writes nothing and leaves all n blocks as the window when n <= 3.
C14_FoldInEvictsOldest ==
    [][(pc = "await" /\ pc' # "await" /\ invocation'.pc = "returned"
            /\ invocation'.result # <<>>) =>
          LET blocks == extract_analysis_blocks(invocation'.result)
              n == Len(blocks)
          IN  IF n > 3
              THEN /\ output' = output \o Terminated(SubSeq(blocks, 1, n - 3))
                   /\ previous_analysis_blocks' = SubSeq(blocks, n - 2, n)
              ELSE /\ output' = output
                   /\ previous_analysis_blocks' = blocks]_vars

C14_TwoOfFiveEvicted ==
    /\ pc = "slice"
    /\ invocation.result = FiveBlocks
    /\ output = <<"a", NL, NL, NL, NL>>
    /\ previous_analysis_blocks = <<<<"b">>, <<"c">>, <<"d">>>>

IsPrefix(s, t) == Len(s) <= Len(t) /\ SubSeq(t, 1, Len(s)) = s

\* C15: while a file is analysed the output only grows: each step appends
\* exactly the blocks evicted or flushed in that step, each once and in
\* order; the final flush writes the window oldest first and leaves it empty.
C15_OutputAppendOnly ==
    [][pc # "walk" =>
          LET new == SubSeq(emitted', Len(emitted) + 1, Len(emitted'))
          IN  /\ IsPrefix(output, output')
              /\ IsPrefix(emitted, emitted')
              /\ output' = output \o Terminated(new)
              /\ pc' = "walk" =>
                    /\ new = previous_analysis_blocks
                    /\ previous_analysis_blocks' = <<>>]_vars

C15_EvictedThenFlushed ==
    /\ FileCompleted
    /\ previous_analysis_blocks = <<>>
    /\ emitted = <<<<"a">>, <<>>, <<"b">>, <<"c">>, <<"d">>>>
    /\ output = Terminated(emitted)

\* C16: when process_code raises while a chunk is analysed the run ends
\* there: the output, the window, the offset and the file count stay as they
\* were, and nothing happens afterwards (no chunk, no file, no backend call,
\* no flush).
C16_FailureAbortsWalk ==
    [][/\ (pc = "await" /\ invocation'.pc = "raised") =>
            /\ pc' = "failed"
            /\ error' = invocation'.error
            /\ output' = output
            /\ previous_analysis_blocks' = previous_analysis_blocks
            /\ processed_files' = processed_files
            /\ processed_chars' = processed_chars
            /\ chunks' = chunks
            /\ request' = request
       /\ pc = "failed" => UNCHANGED vars]_vars

C16_FailedOnSecondChunk ==
    /\ pc = "failed"
    /\ Len(chunks) = 2
    /\ Len(files) = 2
    /\ processed_files = 0
    /\ output = <<"a", NL, NL, NL, NL>>
    /\ previous_analysis_blocks # <<>>

\* C18: an empty response changes neither the window nor the output and
\* does not end the run: the loop goes on from the offset past the chunk, and
\* the next request carries the window as it was.
C18_EmptyResponseSkipped ==
    [][/\ (pc = "await" /\ pc' # "await" /\ invocation'.pc = "returned"
            /\ invocation'.result = <<>>) =>
            /\ pc' = "slice"
            /\ error' = error
            /\ previous_analysis_blocks' = previous_analysis_blocks
            /\ output' = output
            /\ processed_chars' = processed_chars
            /\ processed_chars = Last(chunks).offset + Len(Last(chunks).text)
       /\ (pc = "slice" /\ pc' = "await" /\ invocation.pc = "returned"
            /\ invocation.result = <<>>) =>
            /\ PreviousAnalysisOf(request') =
                  Concat([i \in 1..Len(previous_analysis_blocks) |->
                            IF i < Len(previous_analysis_blocks)
                            THEN previous_analysis_blocks[i] \o <<NL, NL>>
                            ELSE previous_analysis_blocks[i]])
            /\ previous_analysis_blocks' = previous_analysis_blocks]_vars

C18_RequestAfterEmptyResponse ==
    /\ pc = "await"
    /\ Len(chunks) = 3
    /\ invocation.pc = "returned"
    /\ invocation.result = <<>>
    /\ previous_analysis_blocks = <<<<"b">>, <<"c">>, <<"d">>>>
    /\ PreviousAnalysisOf(request) = <<"b", NL, NL, "c", NL, NL, "d">>

\* C19: a request is built only at the top of the loop, never while a call
\* is awaited; its PREVIOUS_ANALYSIS section is the window at that moment,
\* joined by blank lines, its CURRENT_CHUNK section the chunk just sliced;
\* the first request of a file carries an empty window.
C19_RequestsCarryWindow ==
    [][/\ (pc = "slice" /\ pc' = "await") =>
            /\ previous_analysis_blocks' = previous_analysis_blocks
            /\ PreviousAnalysisOf(request') =
                  Concat([i \in 1..Len(previous_analysis_blocks) |->
                            IF i < Len(previous_analysis_blocks)
                            THEN previous_analysis_blocks[i] \o <<NL, NL>>
                            ELSE previous_analysis_blocks[i]])
            /\ CurrentChunkOf(request') = Last(chunks').text
            /\ request'[2] = Paths[processed_files + 1]
            /\ Len(chunks') = 1 => PreviousAnalysisOf(request') = <<>>
       /\ (pc # "slice" \/ pc' # "await") => request' = request
       /\ pc = "await" => chunks' = chunks]_vars

C19_SecondRequestCarriesWindow ==
    /\ pc = "await"
    /\ processed_files = 1
    /\ Len(chunks) = 2
    /\ written # <<>>
    /\ PreviousAnalysisOf(request) = <<"a", SP, "b", NL, NL, "c">>

\* C20: text returned by process_code never holds the rate-limit marker, so
\* no block of the window, no folded block and no part of the output holds
\* it: a response with the marker ends the call in a retry or a failure.
C20_MarkerNeverFolded ==
    /\ invocation.pc = "returned" => ~Contains(invocation.result, MARKER)
    /\ \A i \in 1..Len(previous_analysis_blocks) :
          ~Contains(previous_analysis_blocks[i], MARKER)
    /\ \A i \in 1..Len(folded) : ~Contains(folded[i], MARKER)
    /\ ~Contains(output, MARKER)
    /\ \A i \in 1..Len(invocation.attempts) :
          (invocation.attempts[i].kind = "return"
              /\ Contains(invocation.attempts[i].msg, MARKER)) =>
                /\ i < Len(invocation.attempts) \/ invocation.pc = "raised"
                /\ invocation.result # invocation.attempts[i].msg

C20_QuotedMarkerRejected ==
    /\ pc = "failed"
    /\ invocation.attempts = <<Returned(QuotingMessage)>>
    /\ error = UnknownError
    /\ Len(chunks) = 2
    /\ previous_analysis_blocks # <<>>

\* C17: an AIException that is neither a timeout nor a rate limit leaves
\* process_code on that attempt, at any retry count: it is the failure raised,
\* with no sleep and no retry counted, and nothing happens after it.
C17_OtherFailurePropagates ==
    [][/\ (/\ invocation.pc = "loop"
            /\ Len(invocation'.attempts) = Len(invocation.attempts) + 1
            /\ Last(invocation'.attempts).kind = "AIException"
            /\ ~Contains(Last(invocation'.attempts).msg, TIMED_OUT)
            /\ ~Contains(Last(invocation'.attempts).msg, MARKER)) =>
                /\ invocation'.pc = "raised"
                /\ invocation'.error = AIException
                /\ invocation'.e = Last(invocation'.attempts).msg
                /\ invocation'.retry_count = invocation.retry_count
                /\ invocation'.sleeps = invocation.sleeps
       /\ invocation.pc = "raised" => invocation'.attempts = invocation.attempts]_vars

C17_PropagatedOnFifthAttempt ==
    /\ invocation.pc = "raised"
    /\ invocation.error = AIException
    /\ invocation.retry_count = 4
    /\ Len(invocation.attempts) = 5
    /\ Last(invocation.attempts) = Raised(OtherMessage)

====
